---- MODULE Spec2Model ----
(***************************************************************************)
(* A model of the Ollama clients: the command-line client                  *)
(* (src/ollama_client.py) and the Tkinter client (src/ollama_gui.py).      *)
(*                                                                         *)
(* A run is one program: prog = "cli" is one invocation of the command     *)
(* line client, prog = "gui" is one window with its UI thread, its queue   *)
(* of root.after callbacks and its background worker threads, and          *)
(* prog = "stats" applies the two statistics renderers to one record.      *)
(*                                                                         *)
(* Text is a sequence of tokens: the characters "a" and "b" of the chunks, *)
(* "NL" for a newline, and one token per fixed message.                    *)
(***************************************************************************)
EXTENDS Integers, Sequences, FiniteSets, TLC

VARIABLES
    prog,           \* which program this run is: "cli", "gui" or "stats"
    \* ---- command-line client (src/ollama_client.py)
    stream,         \* args.stream
    verbose,        \* args.verbose
    cpc,            \* position of the CLI process
    stdout,         \* text written to standard output
    stderr,         \* messages written to standard error
    last_data,      \* generate: last_data (streaming) / data (non-streaming)
    vstats,         \* what _print_verbose_stats has printed
    retval,         \* what generate returned
    \* ---- GUI (src/ollama_gui.py)
    is_generating,  \* self.is_generating
    generate_btn,   \* state of self.generate_btn
    stop_btn,       \* state of self.stop_btn
    status,         \* text of self.status_label
    output_text,    \* content of self.output_text
    labels,         \* the statistics labels; labels.exc is the exception the
                    \* last update_stats raised (Tk reports it and goes on)
    queue,          \* callbacks handed to root.after(0, ...), oldest first
    wk,             \* the background worker threads, by generation number
    started,        \* number of worker threads started so far
    completed,      \* number of _generation_complete callbacks run so far
    \* ---- the request (both programs)
    args,           \* the arguments of generate: prompt, model, num_gpu; in the
                    \* GUI the prompt handed to the worker, model_var, gpu_var
    payload,        \* the JSON body built for /api/generate
    posts,          \* calls of requests.post made so far
    \* ---- history of the current request (read by the properties only)
    hist

vars == <<prog, stream, verbose, cpc, stdout, stderr, last_data, vstats, retval,
          is_generating, generate_btn, stop_btn, status, output_text, labels,
          queue, wk, started, completed, args, payload, posts, hist>>

cliVarsButPc == <<stream, verbose, stdout, stderr, last_data, vstats, retval>>
cliVars == <<stream, verbose, cpc, stdout, stderr, last_data, vstats, retval>>
guiVars == <<is_generating, generate_btn, stop_btn, status, output_text, labels,
             queue, wk, started, completed>>
reqVars == <<args, payload, posts>>

(***************************************************************************)
(* Bounds of the model.                                                    *)
(***************************************************************************)
\* lines the server sends in one streaming response, at most
MaxLines == 2
\* Generate actions that start a worker in one GUI run, at most
MaxGens == 2

(***************************************************************************)
(* JSON values.  A field of an object is absent, null, or a value.         *)
(***************************************************************************)
Abs == [k |-> "abs", v |-> 0]
Null == [k |-> "null", v |-> 0]
Num(n) == [k |-> "num", v |-> n]

\* the `response` field: absent, or a string (a sequence of characters)
NoResp == [k |-> "abs", v |-> <<>>]
Str(s) == [k |-> "str", v |-> s]

\* dict.get(key, default) for a numeric field
Get(field, default) == IF field.k = "abs" THEN default ELSE field

\* data.get("response", "")
GetResponseMutNoDefault(data) ==
    IF data.response.k = "abs" THEN <<"None">> ELSE data.response.v

GetResponse(data) == IF data.response.k = "abs" THEN <<>> ELSE data.response.v

\* data.get("done", False), as a truth value
GetDone(data) == data.done = "true"

\* the empty object {} : Python's `not data` / `if last_data`
IsEmptyObj(data) ==
    /\ data.response.k = "abs"
    /\ data.done = "abs"
    /\ \A f \in {data.total_duration, data.load_duration, data.prompt_eval_duration,
                 data.eval_duration, data.prompt_eval_count, data.eval_count} :
            f.k = "abs"

EmptyObj ==
    [response |-> NoResp, done |-> "abs",
     total_duration |-> Abs, load_duration |-> Abs,
     prompt_eval_duration |-> Abs, eval_duration |-> Abs,
     prompt_eval_count |-> Abs, eval_count |-> Abs]

\* None: no terminal record
NoData == [some |-> FALSE, obj |-> EmptyObj]
Some(d) == [some |-> TRUE, obj |-> d]

(***************************************************************************)
(* Statistics rendering.  Durations are nanoseconds; the model draws them  *)
(* as multiples of 10^8 ns so that the %.1f and %.3f renderings are exact  *)
(* in TLC's integers.                                                      *)
(***************************************************************************)
\* `/ 1e9`: nanoseconds in a second
NsPerSec == 1000000000
NsUnit == NsPerSec \div 10

Magnitude(n) == IF n < 0 THEN 0 - n ELSE n

\* f"{x:.3f}" of ns / 1e9, in milliseconds
Seconds3f(ns) ==
    IF ns < 0 THEN 0 - (Magnitude(ns) \div NsUnit) * 100 ELSE (ns \div NsUnit) * 100

\* round half to even of n / d, for n >= 0 and d > 0
RoundDiv(n, d) ==
    LET q == n \div d
        r == n % d
    IN  IF 2 * r > d THEN q + 1
        ELSE IF 2 * r < d THEN q
        ELSE IF q % 2 = 0 THEN q ELSE q + 1

\* count / (ns / 1e9) rendered with :.1f, in tenths of a token per second;
\* exc is the exception Python raises instead
PyDiv(count, ns) ==
    IF ns = 0 THEN [exc |-> "ZeroDivisionError", tenths |-> 0]
    ELSE LET m == RoundDiv(Magnitude(count) * 100, Magnitude(ns) \div NsUnit)
         IN  [exc |-> "none",
              tenths |-> IF (count < 0) = (ns < 0) THEN m ELSE 0 - m]

\* the speed guard of both renderers: `duration > 0 and count > 0`
SpeedGuardMutCountOnly(count, ns) == count > 0

SpeedGuard(count, ns) == ns > 0 /\ count > 0

Unset == [k |-> "unset", v |-> 0]
Dash == [k |-> "dash", v |-> 0]
Val(n) == [k |-> "val", v |-> n]

\* nothing rendered yet
NoRender ==
    [exc |-> "none",
     timing |-> [set |-> FALSE, total |-> 0, load |-> 0, prompt |-> 0, gen |-> 0],
     tokens |-> [set |-> FALSE, prompt |-> Abs, gen |-> Abs],
     total_tokens |-> Unset,
     pspeed |-> Unset,
     gspeed |-> Unset]

\* one speed line: rendered when the guard holds, else `other`
SpeedLine(count, ns, other) ==
    IF SpeedGuard(count, ns)
    THEN LET q == PyDiv(count, ns)
         IN  [exc |-> q.exc, out |-> IF q.exc = "none" THEN Val(q.tenths) ELSE other]
    ELSE [exc |-> "none", out |-> other]

\* The statements shared by _print_verbose_stats and update_stats, in the
\* order the code runs them, starting from what is shown already (`old`).
\* When a speed's guard fails the CLI prints no line (the line stays as it
\* was) and the GUI writes "-".
\* A null field raises TypeError where the code first computes with it; what
\* was rendered before the exception stays rendered.
RenderStats(old, data, gui) ==
    LET td == Get(data.total_duration, Num(0))
        ld == Get(data.load_duration, Num(0))
        pd == Get(data.prompt_eval_duration, Num(0))
        ed == Get(data.eval_duration, Num(0))
        pc == Get(data.prompt_eval_count, Num(0))
        ec == Get(data.eval_count, Num(0))
    IN  IF \E f \in {td, ld, pd, ed} : f.k = "null"
        THEN [old EXCEPT !.exc = "TypeError"]
        ELSE
        LET r1 == [old EXCEPT
                     !.timing = [set |-> TRUE, total |-> Seconds3f(td.v),
                                 load |-> Seconds3f(ld.v), prompt |-> Seconds3f(pd.v),
                                 gen |-> Seconds3f(ed.v)],
                     !.tokens = [set |-> TRUE, prompt |-> pc, gen |-> ec]]
        IN  IF pc.k = "null" \/ ec.k = "null"
            THEN [r1 EXCEPT !.exc = "TypeError"]
            ELSE
            LET r2 == [r1 EXCEPT !.total_tokens = Val(pc.v + ec.v)]
                ps == SpeedLine(pc.v, pd.v, IF gui THEN Dash ELSE r2.pspeed)
            IN  IF ps.exc # "none"
                THEN [r2 EXCEPT !.exc = ps.exc]
                ELSE
                LET r3 == [r2 EXCEPT !.pspeed = ps.out]
                    gs == SpeedLine(ec.v, ed.v, IF gui THEN Dash ELSE r3.gspeed)
                IN  IF gs.exc # "none"
                    THEN [r3 EXCEPT !.exc = gs.exc]
                    ELSE [r3 EXCEPT !.gspeed = gs.out, !.exc = "none"]

\* _print_verbose_stats(data): what it prints, and the exception it raises
print_verbose_stats(data) == RenderStats(NoRender, data, FALSE)

\* OllamaGUI.update_stats(data): the labels afterwards
update_stats(old, data) ==
    IF IsEmptyObj(data) THEN [old EXCEPT !.exc = "none"]
    ELSE RenderStats([old EXCEPT !.exc = "none"], data, TRUE)

\* the labels as setup_ui creates them: every value shows "-"
InitLabels == [NoRender EXCEPT !.pspeed = Dash, !.gspeed = Dash]

(***************************************************************************)
(* What the server may send.                                               *)
(***************************************************************************)
Chunks == {<<"a">>, <<"b">>}

\* statistics a record of the main specification may carry: none, the
\* fields of a complete record, a record whose eval_count is 0, and a record
\* with a field that is not a number
NoStats == EmptyObj
GoodStats ==
    [EmptyObj EXCEPT !.total_duration = Num(3 * (NsPerSec \div 2)),
                     !.load_duration = Num(NsUnit),
                     !.prompt_eval_duration = Num(NsPerSec \div 2),
                     !.eval_duration = Num(NsPerSec),
                     !.prompt_eval_count = Num(1),
                     !.eval_count = Num(2)]
BadStats == [GoodStats EXCEPT !.total_duration = Null]

WithStats(r, d, s) == [s EXCEPT !.response = r, !.done = d]

\* JSON objects.  A line that is not the terminal record carries a chunk and
\* done = false, or neither field; a terminal record carries a chunk or none,
\* and one of the statistics profiles.
Objects ==
    {WithStats(Str(c), "false", NoStats) : c \in Chunks}
    \cup {WithStats(NoResp, "abs", NoStats)}
    \cup {WithStats(Str(<<"a">>), "true", GoodStats),
          WithStats(Str(<<"b">>), "true", BadStats),
          WithStats(NoResp, "true", NoStats)}

\* one line of a streaming body, or the whole body of a buffered response:
\* empty, not JSON, JSON that is no object, or an object
EmptyLine == [kind |-> "empty", obj |-> EmptyObj]
Malformed == [kind |-> "malformed", obj |-> EmptyObj]
NonObject == [kind |-> "nonobject", obj |-> EmptyObj]
ObjLine(o) == [kind |-> "object", obj |-> o]
Lines == {EmptyLine, Malformed, NonObject} \cup {ObjLine(o) : o \in Objects}
Bodies == {Malformed, NonObject} \cup {ObjLine(o) : o \in Objects}

\* every record the statistics specification draws
DurVals == {Abs, Null, Num(0 - NsUnit), Num(0), Num(NsPerSec \div 2), Num(2 * NsPerSec)}
OtherDurVals == {Abs, Null, Num(0), Num(2 * NsPerSec)}
CountVals == {Abs, Null, Num(0 - 1), Num(0), Num(1), Num(2)}
StatsObjects ==
    [response : {NoResp}, done : {"true"},
     total_duration : OtherDurVals, load_duration : OtherDurVals,
     prompt_eval_duration : DurVals, eval_duration : DurVals,
     prompt_eval_count : CountVals, eval_count : CountVals]

(***************************************************************************)
(* The request.                                                            *)
(***************************************************************************)
\* num_gpu: None, or a number of layers
NoGpu == [k |-> "None", v |-> 0]

\* the object {"num_gpu": n}
Options(n) == [k |-> "num_gpu", v |-> n]

\* the payload of generate and of _generate_thread: `options` is added when
\* num_gpu is not None
PayloadMutTruthy(model, prompt, stream_arg, num_gpu) ==
    [model |-> model, prompt |-> prompt, stream |-> stream_arg,
     options |-> IF num_gpu # NoGpu /\ num_gpu.v # 0 THEN Options(num_gpu.v) ELSE Abs]

Payload(model, prompt, stream_arg, num_gpu) ==
    [model |-> model, prompt |-> prompt, stream |-> stream_arg,
     options |-> IF num_gpu # NoGpu THEN Options(num_gpu.v) ELSE Abs]

\* no payload built (yet)
NoPayload == [model |-> "", prompt |-> <<>>, stream |-> FALSE, options |-> Abs]

\* the defaults: the model and num_gpu of parse_args and of __init__
DefaultModel == "gpt-oss:20b"
DefaultGpu == 99
DefaultArgs == [prompt |-> <<"h">>, model |-> DefaultModel, num_gpu |-> Num(DefaultGpu)]

(***************************************************************************)
(* History of the current request.                                         *)
(***************************************************************************)
NoHist ==
    [nread |-> 0,            \* lines received from the server
     expected |-> <<>>,      \* `response` fields of the lines processed, in order
     sawDone |-> FALSE,      \* a line with done = true has been parsed
     lastDone |-> NoData,    \* the last such line
     lateRead |-> FALSE,     \* a line was read after that
     buffered |-> FALSE,     \* the response was one buffered body
     failed |-> "none",      \* the failure that ended the request
     atFailure |-> <<>>,     \* standard output at the moment of the failure
     stopped |-> FALSE,      \* stop_generation ran during this request
     readAfterStop |-> 0,    \* lines received after that
     fwdAfterStop |-> 0,     \* chunks forwarded after that
     checks |-> 0,           \* flag checks made for the line in hand
     labels0 |-> InitLabels] \* the statistics labels when the request began

(***************************************************************************)
(* The command-line client.                                                *)
(***************************************************************************)
PyNone == [k |-> "None", v |-> <<>>]
NotReturned == [k |-> "unset", v |-> <<>>]

ErrUnreachable == "[Error] Could not reach Ollama server"
ErrInvalidJSON == "[Error] Invalid JSON from server"

\* The except clauses of generate, in their order.  RequestsJSONDecodeError is
\* requests.exceptions.JSONDecodeError, which is a RequestException and a
\* json.JSONDecodeError at once: the first clause takes it.
CliExceptMutNoJsonClause(exc) ==
    IF exc \in {"RequestException", "RequestsJSONDecodeError"}
    THEN [caught |-> TRUE, msg |-> ErrUnreachable]
    ELSE [caught |-> FALSE, msg |-> "Traceback"]

CliExceptMutSilent(exc) ==
    IF exc \in {"RequestException", "RequestsJSONDecodeError", "JSONDecodeError"}
    THEN [caught |-> TRUE, msg |-> ""]
    ELSE [caught |-> FALSE, msg |-> "Traceback"]

CliExcept(exc) ==
    IF exc \in {"RequestException", "RequestsJSONDecodeError"}
    THEN [caught |-> TRUE, msg |-> ErrUnreachable]
    ELSE IF exc = "JSONDecodeError"
    THEN [caught |-> TRUE, msg |-> ErrInvalidJSON]
    ELSE [caught |-> FALSE, msg |-> "Traceback"]

\* an exception raised inside generate's try block, with the history `h`, the
\* standard error `err` and the standard output `out` at that point; an
\* exception no clause catches ends the process with a traceback
CliRaised(exc, h, err, out) ==
    LET c == CliExcept(exc)
    IN  /\ stderr' = Append(err, c.msg)
        /\ retval' = IF c.caught THEN PyNone ELSE retval
        /\ cpc' = IF c.caught THEN "returned" ELSE "crashed"
        /\ hist' = [h EXCEPT !.failed = exc, !.atFailure = out]

\* main, up to the call of generate
CliMain ==
    /\ prog = "cli" /\ cpc = "main"
    /\ stderr' = IF verbose THEN Append(stderr, "args") ELSE stderr
    /\ cpc' = "post"
    /\ UNCHANGED <<prog, stream, verbose, stdout, last_data, vstats, retval, hist>>
    /\ UNCHANGED guiVars
    /\ payload' = Payload(args.model, args.prompt, stream, args.num_gpu)
    /\ UNCHANGED <<args, posts>>

\* requests.post or raise_for_status raises: no connection, a timeout, an
\* HTTP error status
CliPostFails ==
    /\ prog = "cli" /\ cpc = "post"
    /\ CliRaised("RequestException", hist, stderr, stdout)
    /\ UNCHANGED <<prog, stream, verbose, stdout, last_data, vstats>>
    /\ UNCHANGED guiVars
    /\ posts' = posts + 1
    /\ UNCHANGED <<args, payload>>

\* streaming: the response has started, the loop over iter_lines begins
CliPostStream ==
    /\ prog = "cli" /\ cpc = "post" /\ stream
    /\ cpc' = "iter"
    /\ last_data' = NoData
    /\ UNCHANGED <<prog, stream, verbose, stdout, stderr, vstats, retval, hist>>
    /\ UNCHANGED guiVars
    /\ posts' = posts + 1
    /\ UNCHANGED <<args, payload>>

\* the statistics printed by a verbose call, then the return or the crash
CliStats(data, value, h, out) ==
    LET r == print_verbose_stats(data)
    IN  /\ vstats' = r
        /\ IF r.exc = "none"
           THEN /\ stderr' = Append(stderr, "stats")
                /\ retval' = value
                /\ cpc' = "returned"
                /\ hist' = h
           ELSE CliRaised(r.exc, h, Append(stderr, "stats"), out)

\* one pass of the streaming loop: the next line arrives and is processed
CliLine ==
    /\ prog = "cli" /\ cpc = "iter"
    /\ hist.nread < MaxLines
    /\ \E line \in Lines :
        LET h == [hist EXCEPT !.nread = @ + 1, !.lateRead = @ \/ hist.sawDone]
            chunk == GetResponse(line.obj)
        IN  CASE line.kind = "empty" ->
                    /\ hist' = h
                    /\ UNCHANGED <<cpc, stdout, stderr, last_data, retval>>
              [] line.kind = "malformed" ->
                    /\ CliRaised("JSONDecodeError", h, stderr, stdout)
                    /\ UNCHANGED <<stdout, last_data>>
              [] line.kind = "nonobject" ->
                    /\ CliRaised("AttributeError", h, stderr, stdout)
                    /\ UNCHANGED <<stdout, last_data>>
              [] line.kind = "object" ->
                    /\ stdout' = stdout \o chunk
                    /\ last_data' = IF GetDone(line.obj) THEN Some(line.obj) ELSE last_data
                    /\ hist' = [h EXCEPT !.expected = @ \o chunk,
                                         !.sawDone = @ \/ GetDone(line.obj),
                                         !.lastDone = IF line.obj.done = "true"
                                                      THEN Some(line.obj) ELSE @]
                    /\ UNCHANGED <<cpc, stderr, retval>>
    /\ UNCHANGED <<prog, stream, verbose, vstats>>
    /\ UNCHANGED guiVars
    /\ UNCHANGED reqVars

\* the connection breaks or times out while the loop waits for a line
CliReadError ==
    /\ prog = "cli" /\ cpc = "iter"
    /\ CliRaised("RequestException", hist, stderr, stdout)
    /\ UNCHANGED <<prog, stream, verbose, stdout, last_data, vstats>>
    /\ UNCHANGED guiVars
    /\ UNCHANGED reqVars

\* the stream closes: the newline, the statistics, return None
CliStreamEnd ==
    /\ prog = "cli" /\ cpc = "iter"
    /\ stdout' = Append(stdout, "NL")
    /\ IF verbose /\ last_data.some /\ ~IsEmptyObj(last_data.obj)
       THEN CliStats(last_data.obj, PyNone, hist, Append(stdout, "NL"))
       ELSE /\ retval' = PyNone
            /\ cpc' = "returned"
            /\ UNCHANGED <<stderr, vstats, hist>>
    /\ UNCHANGED <<prog, stream, verbose, last_data>>
    /\ UNCHANGED guiVars
    /\ UNCHANGED reqVars

\* not streaming: the whole body arrives and is handled
CliPostBody ==
    /\ prog = "cli" /\ cpc = "post" /\ ~stream
    /\ \E body \in Bodies :
        CASE body.kind = "malformed" ->
                \* resp.json() raises the decode error of the installed requests
                /\ \E exc \in {"RequestsJSONDecodeError", "JSONDecodeError"} :
                        CliRaised(exc, hist, stderr, stdout)
                /\ UNCHANGED <<last_data, vstats>>
          [] body.kind = "nonobject" ->
                /\ CliRaised("AttributeError", hist, stderr, stdout)
                /\ UNCHANGED <<last_data, vstats>>
          [] body.kind = "object" ->
                /\ last_data' = Some(body.obj)
                /\ IF verbose
                   THEN CliStats(body.obj, Str(GetResponse(body.obj)),
                                 [hist EXCEPT !.expected = GetResponse(body.obj)],
                                 stdout)
                   ELSE /\ retval' = Str(GetResponse(body.obj))
                        /\ cpc' = "returned"
                        /\ hist' = [hist EXCEPT !.expected = GetResponse(body.obj)]
                        /\ UNCHANGED <<stderr, vstats>>
    /\ UNCHANGED <<prog, stream, verbose, stdout>>
    /\ UNCHANGED guiVars
    /\ posts' = posts + 1
    /\ UNCHANGED <<args, payload>>

\* main after generate: print the result unless it is None
CliMainEnd ==
    /\ prog = "cli" /\ cpc = "returned"
    /\ stdout' = IF retval.k = "str" THEN (stdout \o retval.v) \o <<"NL">> ELSE stdout
    /\ cpc' = "exit"
    /\ UNCHANGED <<prog, stream, verbose, stderr, last_data, vstats, retval, hist>>
    /\ UNCHANGED guiVars
    /\ UNCHANGED reqVars

CliNext ==
    \/ CliMain
    \/ CliPostFails
    \/ CliPostStream
    \/ CliPostBody
    \/ CliLine
    \/ CliReadError
    \/ CliStreamEnd
    \/ CliMainEnd

(***************************************************************************)
(* The statistics renderers applied to one terminal record.                *)
(***************************************************************************)
StatsPrintVerbose ==
    /\ prog = "stats" /\ cpc = "stats"
    /\ vstats' = print_verbose_stats(last_data.obj)
    /\ cpc' = "stats_cli"
    /\ UNCHANGED <<prog, stream, verbose, stdout, stderr, last_data, retval, hist>>
    /\ UNCHANGED guiVars
    /\ UNCHANGED reqVars

StatsUpdateStats ==
    /\ prog = "stats" /\ cpc = "stats_cli"
    /\ labels' = update_stats(labels, last_data.obj)
    /\ cpc' = "stats_gui"
    /\ UNCHANGED <<prog, hist>>
    /\ UNCHANGED cliVarsButPc
    /\ UNCHANGED <<is_generating, generate_btn, stop_btn, status, output_text,
                   queue, wk, started, completed>>
    /\ UNCHANGED reqVars

(***************************************************************************)
(* The GUI: the UI thread.                                                 *)
(***************************************************************************)
\* what the prompt box may hold when Generate is pressed
Prompts == {<<>>, <<" ">>, <<"h">>, <<" ", "h">>}

\* str.strip()
RECURSIVE LStrip(_)
LStrip(s) == IF s # <<>> /\ Head(s) = " " THEN LStrip(Tail(s)) ELSE s
RECURSIVE RStrip(_)
RStrip(s) ==
    IF s # <<>> /\ s[Len(s)] = " " THEN RStrip(SubSeq(s, 1, Len(s) - 1)) ELSE s
StripMutNone(s) == s

Strip(s) == RStrip(LStrip(s))

\* the three lines generate writes above the output of a request
Header == <<"SEP", "PROMPT", "SEP">>

\* the widgets and the flag the handlers of the UI thread work on
UI ==
    [is_generating |-> is_generating, generate_btn |-> generate_btn,
     stop_btn |-> stop_btn, status |-> status, output_text |-> output_text]

\* OllamaGUI.generate with the prompt box holding `text`: the widgets and the
\* flag afterwards, and whether a worker thread was started
generateMutNoDisable(ui, text) ==
    IF Strip(text) = <<>>
    THEN [ui |-> [ui EXCEPT !.status = "Please enter a prompt"], start |-> FALSE]
    ELSE IF ui.is_generating
    THEN [ui |-> [ui EXCEPT !.status = "Already generating..."], start |-> FALSE]
    ELSE [ui |-> [ui EXCEPT !.is_generating = TRUE,
                            !.stop_btn = "normal",
                            !.status = "Generating...",
                            !.output_text = @ \o Header],
          start |-> TRUE]

generate(ui, text) ==
    IF Strip(text) = <<>>
    THEN [ui |-> [ui EXCEPT !.status = "Please enter a prompt"], start |-> FALSE]
    ELSE IF ui.is_generating
    THEN [ui |-> [ui EXCEPT !.status = "Already generating..."], start |-> FALSE]
    ELSE [ui |-> [ui EXCEPT !.is_generating = TRUE,
                            !.generate_btn = "disabled",
                            !.stop_btn = "normal",
                            !.status = "Generating...",
                            !.output_text = @ \o Header],
          start |-> TRUE]

\* a worker thread that does not exist (yet)
NoWorker == [pc |-> "none", line |-> EmptyLine, last_data |-> NoData]

\* the live worker threads: started, and not yet past their last statement
Alive == {w \in DOMAIN wk : wk[w].pc \notin {"none", "done"}}

\* the Generate button is pressed: a disabled button runs no command
Generate ==
    /\ prog = "gui"
    /\ generate_btn = "normal"
    /\ \E text \in Prompts :
        LET r == generate(UI, text)
        IN  /\ r.start => started < MaxGens
            /\ is_generating' = r.ui.is_generating
            /\ generate_btn' = r.ui.generate_btn
            /\ stop_btn' = r.ui.stop_btn
            /\ status' = r.ui.status
            /\ output_text' = r.ui.output_text
            /\ IF r.start
               THEN /\ started' = started + 1
                    /\ wk' = [wk EXCEPT ![started + 1] = [NoWorker EXCEPT !.pc = "post"]]
                    /\ hist' = [NoHist EXCEPT !.labels0 = labels]
               ELSE UNCHANGED <<started, wk, hist>>
            /\ args' = IF r.start THEN [args EXCEPT !.prompt = Strip(text)] ELSE args
    /\ UNCHANGED <<prog, labels, queue, completed, payload, posts>>
    /\ UNCHANGED cliVars

\* OllamaGUI.stop_generation: the Stop button is pressed
stop_generationMutReenables ==
    /\ prog = "gui"
    /\ stop_btn = "normal"
    /\ is_generating' = FALSE
    /\ generate_btn' = "normal"
    /\ status' = "Stopping..."
    /\ hist' = [hist EXCEPT !.stopped = TRUE]
    /\ UNCHANGED <<prog, stop_btn, output_text, labels, queue, wk,
                   started, completed>>
    /\ UNCHANGED cliVars
    /\ UNCHANGED reqVars

stop_generation ==
    /\ prog = "gui"
    /\ stop_btn = "normal"
    /\ is_generating' = FALSE
    /\ status' = "Stopping..."
    /\ hist' = [hist EXCEPT !.stopped = TRUE]
    /\ UNCHANGED <<prog, generate_btn, stop_btn, output_text, labels, queue, wk,
                   started, completed>>
    /\ UNCHANGED cliVars
    /\ UNCHANGED reqVars

\* the callbacks a worker hands to root.after(0, ...)
CbAppend(t) == [fn |-> "_append_output", text |-> t, msg |-> "", data |-> EmptyObj]
CbStatus(m) == [fn |-> "update_status", text |-> <<>>, msg |-> m, data |-> EmptyObj]
CbStats(d) == [fn |-> "update_stats", text |-> <<>>, msg |-> "", data |-> d]
CbComplete == [fn |-> "_generation_complete", text |-> <<>>, msg |-> "", data |-> EmptyObj]

\* OllamaGUI._append_output
append_outputMutPrepend(old, text) == text \o old

append_outputMutReplace(old, text) == text

append_output(old, text) == old \o text

\* OllamaGUI._generation_complete: the widgets and the flag afterwards
generation_completeMutKeepsDisabled(ui) ==
    [ui EXCEPT !.is_generating = FALSE, !.status = "Ready"]

generation_complete(ui) ==
    [ui EXCEPT !.is_generating = FALSE, !.generate_btn = "normal",
               !.stop_btn = "disabled", !.status = "Ready"]

\* the event loop runs the oldest queued callback on the UI thread; an
\* exception raised by a callback is reported by Tk and the loop goes on
RunCallback ==
    /\ prog = "gui"
    /\ queue # <<>>
    /\ LET cb == Head(queue)
           done == generation_complete(UI)
           lab == update_stats(labels, cb.data)
       IN  /\ queue' = Tail(queue)
           /\ CASE cb.fn = "_append_output" ->
                    /\ output_text' = append_output(output_text, cb.text)
                    /\ UNCHANGED <<is_generating, generate_btn, stop_btn, status,
                                   labels, completed>>
                [] cb.fn = "update_status" ->
                    /\ status' = cb.msg
                    /\ UNCHANGED <<is_generating, generate_btn, stop_btn, output_text,
                                   labels, completed>>
                [] cb.fn = "update_stats" ->
                    /\ labels' = lab
                    /\ UNCHANGED <<is_generating, generate_btn, stop_btn, status,
                                   output_text, completed>>
                [] cb.fn = "_generation_complete" ->
                    /\ is_generating' = done.is_generating
                    /\ generate_btn' = done.generate_btn
                    /\ stop_btn' = done.stop_btn
                    /\ status' = done.status
                    /\ completed' = completed + 1
                    /\ UNCHANGED <<output_text, labels>>
    /\ UNCHANGED <<prog, wk, started, hist>>
    /\ UNCHANGED cliVars
    /\ UNCHANGED reqVars

(***************************************************************************)
(* The GUI: a background worker thread, _generate_thread.  Between two     *)
(* positions a worker runs statements on its own locals and hands          *)
(* callbacks to root.after; the flag is_generating is the one thing it     *)
(* reads that the UI thread writes.                                        *)
(***************************************************************************)
\* what no statement of _generate_thread, _generate_stream and
\* _generate_non_stream assigns: the widgets, the flag, the Tk variables.
\* Every effect of the worker on the window is a root.after hand-over.
WorkerFrameMutDirectStatus ==
    /\ status' = "Error"
    /\ UNCHANGED <<prog, is_generating, generate_btn, stop_btn, output_text,
                   labels, started, completed, args>>
    /\ UNCHANGED cliVars

WorkerFrame ==
    /\ UNCHANGED <<prog, is_generating, generate_btn, stop_btn, status, output_text,
                   labels, started, completed, args>>
    /\ UNCHANGED cliVars

\* the worker moves to `pc`
Goto(w, pc) == [wk EXCEPT ![w].pc = pc]

\* what `except Exception` hands to the UI thread: the error line, the status
ExceptCallbacks == <<CbAppend(<<"ERR">>), CbStatus("Error")>>

\* what _generate_stream hands over after its loop: the newline, and the
\* statistics when a terminal record was kept
TailCallbacksMutAlways(last) == <<CbAppend(<<"NL">>), CbStats(last.obj)>>

TailCallbacksMutStatsFirst(last) ==
    IF last.some /\ ~IsEmptyObj(last.obj)
    THEN <<CbStats(last.obj), CbAppend(<<"NL">>)>>
    ELSE <<CbAppend(<<"NL">>)>>

TailCallbacks(last) ==
    IF last.some /\ ~IsEmptyObj(last.obj)
    THEN <<CbAppend(<<"NL">>), CbStats(last.obj)>>
    ELSE <<CbAppend(<<"NL">>)>>

\* an exception leaves the try block of _generate_thread and is handled
RaisedMutRetry(w, exc) ==
    /\ queue' = queue
    /\ wk' = Goto(w, "post")
    /\ hist' = [hist EXCEPT !.failed = exc]

Raised(w, exc) ==
    /\ queue' = queue \o ExceptCallbacks
    /\ wk' = Goto(w, "finally")
    /\ hist' = [hist EXCEPT !.failed = exc]

\* the loop of _generate_stream is left (the stream closed, or the break)
LoopEnds(w) ==
    /\ queue' = queue \o TailCallbacks(wk[w].last_data)
    /\ wk' = Goto(w, "finally")

\* requests.post or raise_for_status raises
WkPostFails(w) ==
    /\ prog = "gui" /\ wk[w].pc = "post"
    /\ Raised(w, "RequestException")
    /\ WorkerFrame
    /\ \E stream_var \in BOOLEAN :
           payload' = Payload(args.model, args.prompt, stream_var, args.num_gpu)
    /\ posts' = posts + 1

\* stream_var is set: _generate_stream, the response has started
WkPostStream(w) ==
    /\ prog = "gui" /\ wk[w].pc = "post"
    /\ wk' = [wk EXCEPT ![w].pc = "iter", ![w].last_data = NoData]
    /\ WorkerFrame
    /\ UNCHANGED <<queue, hist>>
    /\ payload' = Payload(args.model, args.prompt, TRUE, args.num_gpu)
    /\ posts' = posts + 1

\* stream_var is not set: _generate_non_stream, the whole body arrives
WkPostBody(w) ==
    /\ prog = "gui" /\ wk[w].pc = "post"
    /\ \E body \in Bodies :
        CASE body.kind = "malformed" -> Raised(w, "JSONDecodeError")
          [] body.kind = "nonobject" -> Raised(w, "AttributeError")
          [] body.kind = "object" ->
                /\ queue' = queue \o <<CbAppend(GetResponse(body.obj)),
                                       CbAppend(<<"NL">>), CbStats(body.obj)>>
                /\ wk' = Goto(w, "finally")
                /\ hist' = [hist EXCEPT !.expected = GetResponse(body.obj),
                                        !.buffered = TRUE]
    /\ WorkerFrame
    /\ payload' = Payload(args.model, args.prompt, FALSE, args.num_gpu)
    /\ posts' = posts + 1

\* iter_lines hands the next line to the loop
WkRecv(w) ==
    /\ prog = "gui" /\ wk[w].pc = "iter"
    /\ hist.nread < MaxLines
    /\ \E line \in Lines : wk' = [wk EXCEPT ![w].pc = "check", ![w].line = line]
    /\ hist' = [hist EXCEPT !.nread = @ + 1,
                            !.lateRead = @ \/ hist.sawDone,
                            !.readAfterStop = IF hist.stopped THEN @ + 1 ELSE @,
                            !.checks = 0]
    /\ WorkerFrame
    /\ UNCHANGED <<queue>>
    /\ UNCHANGED <<payload, posts>>

\* the connection breaks or times out while the loop waits for a line
WkReadError(w) ==
    /\ prog = "gui" /\ wk[w].pc = "iter"
    /\ Raised(w, "RequestException")
    /\ WorkerFrame
    /\ UNCHANGED <<payload, posts>>

\* the stream closes: the loop ends
WkStreamEnd(w) ==
    /\ prog = "gui" /\ wk[w].pc = "iter"
    /\ LoopEnds(w)
    /\ WorkerFrame
    /\ UNCHANGED <<hist>>
    /\ UNCHANGED <<payload, posts>>

\* `if not self.is_generating: break`, read by the worker thread
FlagSaysStopMutNever(flag) == FALSE

FlagSaysStop(flag) == ~flag

WkCheck(w) ==
    /\ prog = "gui" /\ wk[w].pc = "check"
    /\ IF FlagSaysStop(is_generating)
       THEN LoopEnds(w)
       ELSE /\ wk' = Goto(w, "parse")
            /\ UNCHANGED queue
    /\ hist' = [hist EXCEPT !.checks = @ + 1]
    /\ WorkerFrame
    /\ UNCHANGED <<payload, posts>>

\* the rest of the loop body: skip an empty line, parse, forward, keep the
\* terminal record
WkParse(w) ==
    /\ prog = "gui" /\ wk[w].pc = "parse"
    /\ LET line == wk[w].line
           chunk == GetResponse(line.obj)
       IN  CASE line.kind = "empty" ->
                    /\ wk' = Goto(w, "iter")
                    /\ UNCHANGED <<queue, hist>>
             [] line.kind = "malformed" -> Raised(w, "JSONDecodeError")
             [] line.kind = "nonobject" -> Raised(w, "AttributeError")
             [] line.kind = "object" ->
                    /\ queue' = IF chunk # <<>> THEN Append(queue, CbAppend(chunk))
                                ELSE queue
                    /\ wk' = [wk EXCEPT ![w].pc = "iter",
                                        ![w].last_data = IF GetDone(line.obj)
                                                         THEN Some(line.obj) ELSE @]
                    /\ hist' = [hist EXCEPT
                                  !.expected = @ \o chunk,
                                  !.sawDone = @ \/ GetDone(line.obj),
                                  !.lastDone = IF line.obj.done = "true"
                                               THEN Some(line.obj) ELSE @,
                                  !.fwdAfterStop = IF hist.stopped /\ chunk # <<>>
                                                   THEN @ + 1 ELSE @]
    /\ WorkerFrame
    /\ UNCHANGED <<payload, posts>>

\* `finally`: hand _generation_complete to the UI thread; the thread ends
\* and its locals are gone
WkFinallyMutTwice(w) ==
    /\ prog = "gui" /\ wk[w].pc = "finally"
    /\ queue' = queue \o <<CbComplete, CbComplete>>
    /\ wk' = [wk EXCEPT ![w] = [NoWorker EXCEPT !.pc = "done"]]
    /\ WorkerFrame
    /\ UNCHANGED hist
    /\ payload' = NoPayload
    /\ UNCHANGED posts

WkFinally(w) ==
    /\ prog = "gui" /\ wk[w].pc = "finally"
    /\ queue' = Append(queue, CbComplete)
    /\ wk' = [wk EXCEPT ![w] = [NoWorker EXCEPT !.pc = "done"]]
    /\ WorkerFrame
    /\ UNCHANGED <<hist>>
    /\ payload' = NoPayload
    /\ UNCHANGED posts

PostFails == \E w \in DOMAIN wk : WkPostFails(w)
PostStream == \E w \in DOMAIN wk : WkPostStream(w)
PostBody == \E w \in DOMAIN wk : WkPostBody(w)
Recv == \E w \in DOMAIN wk : WkRecv(w)
ReadError == \E w \in DOMAIN wk : WkReadError(w)
StreamEnd == \E w \in DOMAIN wk : WkStreamEnd(w)
Check == \E w \in DOMAIN wk : WkCheck(w)
Parse == \E w \in DOMAIN wk : WkParse(w)
Finally == \E w \in DOMAIN wk : WkFinally(w)

WorkerNext ==
    \/ PostFails
    \/ PostStream
    \/ PostBody
    \/ Recv
    \/ ReadError
    \/ StreamEnd
    \/ Check
    \/ Parse
    \/ Finally

GuiNext ==
    \/ Generate
    \/ stop_generation
    \/ RunCallback
    \/ WorkerNext

(***************************************************************************)
(* The specifications.                                                     *)
(***************************************************************************)
CliInit ==
    /\ stream \in BOOLEAN
    /\ verbose \in BOOLEAN
    /\ cpc = "main"
    /\ stdout = <<>>
    /\ stderr = <<>>
    /\ last_data = NoData
    /\ vstats = NoRender
    /\ retval = NotReturned

\* the window after __init__
GuiInit ==
    /\ is_generating = FALSE
    /\ generate_btn = "normal"
    /\ stop_btn = "disabled"
    /\ status = "Ready"
    /\ output_text = <<>>
    /\ labels = InitLabels
    /\ queue = <<>>
    /\ wk = [w \in 1..MaxGens |-> NoWorker]
    /\ started = 0
    /\ completed = 0

\* no request yet
ReqInit ==
    /\ payload = NoPayload
    /\ posts = 0

Init ==
    /\ prog \in {"cli", "gui"}
    /\ CliInit
    /\ prog = "gui" => (stream /\ ~verbose)
    /\ GuiInit
    /\ args = DefaultArgs
    /\ ReqInit
    /\ hist = NoHist

Next == CliNext \/ GuiNext

\* one invocation of the command-line client
InitCli == Init /\ prog = "cli"
SpecCli == InitCli /\ [][CliNext]_vars

Spec == Init /\ [][Next]_vars

\* the worker threads are scheduled, a network read returns or fails, and the
\* event loop keeps running the queued callbacks
FairSpec == Spec /\ WF_vars(WorkerNext) /\ WF_vars(RunCallback)

StatsInit ==
    /\ prog = "stats"
    /\ stream = FALSE /\ verbose = TRUE
    /\ cpc = "stats"
    /\ stdout = <<>>
    /\ stderr = <<>>
    /\ last_data \in {Some(o) : o \in StatsObjects}
    /\ vstats = NoRender
    /\ retval = NotReturned
    /\ GuiInit
    /\ args = DefaultArgs
    /\ ReqInit
    /\ hist = NoHist

StatsNext == StatsPrintVerbose \/ StatsUpdateStats

\* Both programs up to the moment the request is sent, over the arguments:
\* generate may be called with num_gpu = None, the window offers the two
\* radio buttons "GPU (Full)" and "CPU Only".
ArgModels == {DefaultModel, "llama3"}
ArgPrompts == {<<"h">>, <<"h", "i">>}
ArgGpus == {NoGpu, Num(0), Num(1), Num(DefaultGpu)}
GuiGpus == {Num(0), Num(DefaultGpu)}

PayloadInit ==
    /\ prog \in {"cli", "gui"}
    /\ CliInit
    /\ prog = "gui" => (stream /\ ~verbose)
    /\ GuiInit
    /\ args \in [prompt : ArgPrompts, model : ArgModels, num_gpu : ArgGpus]
    /\ prog = "gui" => (args.num_gpu \in GuiGpus /\ args.prompt = <<"h">>)
    /\ ReqInit
    /\ hist = NoHist

PayloadNext ==
    \/ CliMain
    \/ CliPostFails
    \/ CliPostStream
    \/ CliPostBody
    \/ Generate
    \/ PostFails
    \/ PostStream
    \/ PostBody

SpecPayload == PayloadInit /\ [][PayloadNext]_vars

SpecStats == StatsInit /\ [][StatsNext]_vars

(***************************************************************************)
(* Properties.                                                             *)
(***************************************************************************)
Last(s) == s[Len(s)]

\* the texts of the queued _append_output callbacks, in queue order
RECURSIVE PendingText(_)
PendingText(q) ==
    IF q = <<>> THEN <<>>
    ELSE (IF Head(q).fn = "_append_output" THEN Head(q).text ELSE <<>>)
         \o PendingText(Tail(q))

\* what follows the last header line in a text
RECURSIVE AfterLastHeader(_)
AfterLastHeader(t) ==
    IF \A i \in DOMAIN t : t[i] \notin {"SEP", "PROMPT"} THEN t
    ELSE AfterLastHeader(Tail(t))

\* the output of the current request once every queued callback has run
Shown == AfterLastHeader(output_text \o PendingText(queue))

\* the positions of a worker inside the loop of _generate_stream
InLoop(w) == wk[w].pc \in {"iter", "check", "parse"}

CaughtFailures == {"RequestException", "RequestsJSONDecodeError", "JSONDecodeError"}

\* C1: once a line with done = true has been parsed, no further line of the
\* stream is read (CLI and GUI).
C1_NoReadAfterDone == ~hist.lateRead

\* C2: at most one worker thread is in flight in a GUI instance, and while a
\* generation is active the handler generate starts no worker and changes
\* nothing but the status message, whatever the prompt box holds.
C2_SingleGeneration ==
    prog = "gui" =>
        /\ Cardinality(Alive) <= 1
        /\ is_generating =>
              \A text \in Prompts :
                  LET r == generate(UI, text)
                  IN  /\ ~r.start
                      /\ r.ui = [UI EXCEPT !.status = r.ui.status]
                      /\ r.ui.status \in {"Please enter a prompt", "Already generating..."}

\* C2 witness: the second generation of a run is in flight after Stop was
\* pressed, its worker still alive with the flag already cleared
C2_Witness ==
    /\ prog = "gui" /\ started = 2 /\ Alive = {2} /\ ~is_generating
    /\ generate_btn = "disabled"

\* C3 as stated: after stop_generation has cleared the flag the worker
\* forwards no further chunk.
C3_NoForwardAfterStop == prog = "gui" => hist.fwdAfterStop = 0

\* C3 as amended: after stop_generation has cleared the flag the worker
\* forwards at most one further chunk (that of the line whose flag check had
\* already passed) and receives at most one further line; the flag is checked
\* exactly once per received line, before the line is parsed or forwarded.
C3_StopBounded ==
    prog = "gui" =>
        /\ hist.fwdAfterStop <= 1
        /\ hist.readAfterStop <= 1
        /\ \A w \in Alive :
            /\ wk[w].pc = "check" => hist.checks = 0
            /\ wk[w].pc = "parse" => hist.checks = 1
            /\ (wk[w].pc = "check" /\ hist.stopped /\ hist.fwdAfterStop = 1)
                    => hist.readAfterStop = 1

\* C3 witness: Stop fell between the flag check and the forwarding of a
\* line; that chunk was forwarded and one more line was received
C3_Witness ==
    /\ prog = "gui" /\ hist.stopped
    /\ hist.fwdAfterStop = 1 /\ hist.readAfterStop = 1

\* C4: the text emitted for a request is the concatenation, in receipt order,
\* of the `response` fields of the lines processed so far: on standard output
\* in the CLI, in the output widget once the queued callbacks have run in the
\* GUI; only the closing newline or the error line follows it.
C4_ChunksInOrder ==
    /\ (prog = "cli" /\ stream) =>
          /\ cpc = "iter" => stdout = hist.expected
          /\ stdout \in {hist.expected, hist.expected \o <<"NL">>}
    /\ (prog = "gui" /\ started > 0) =>
          /\ (\E w \in Alive : InLoop(w)) => Shown = hist.expected
          /\ Shown \in {hist.expected, hist.expected \o <<"NL">>,
                        hist.expected \o <<"ERR">>}
          /\ \E k \in 0..Len(Shown) :
                AfterLastHeader(output_text) = SubSeq(Shown, 1, k)

\* C4 witness: two chunks of one GUI request are in the widget, in order
C4_Witness ==
    /\ prog = "gui" /\ queue = <<>> /\ \E w \in Alive : InLoop(w)
    /\ hist.expected = <<"a", "b">>
    /\ AfterLastHeader(output_text) = <<"a", "b">>

\* C5: in CLI streaming mode a line that is not JSON ends the call: the loop
\* is left for good, the decode error is the last message on standard error,
\* no statistics are printed, generate returns None, and standard output is
\* exactly what had been forwarded before the line.
C5_MalformedLineAborts ==
    (prog = "cli" /\ stream /\ hist.failed = "JSONDecodeError") =>
        /\ cpc \in {"returned", "exit"}
        /\ Last(stderr) = ErrInvalidJSON
        /\ \A i \in DOMAIN stderr : stderr[i] # "stats"
        /\ vstats = NoRender
        /\ retval = PyNone
        /\ stdout = hist.atFailure
        /\ stdout = hist.expected

\* C5 witness: a chunk was written, then a malformed line ended the call
C5_Witness ==
    /\ prog = "cli" /\ stream /\ hist.failed = "JSONDecodeError"
    /\ cpc = "exit" /\ stdout = <<"a">> /\ hist.nread = 2

\* C6: no failure during a generation propagates as a crash.
C6_NoCrash == cpc # "crashed"

\* the window ready for the next request
ReadyState ==
    /\ ~is_generating
    /\ generate_btn = "normal"
    /\ stop_btn = "disabled"
    /\ status = "Ready"

\* C7: every started generation, however it ends, is eventually followed by
\* the state in which is_generating is false, Generate is enabled, Stop is
\* disabled and the status is Ready; when the worker failed, the output then
\* ends with the error line.
C7_AlwaysReadyAgain ==
    \A n \in 1..MaxGens :
        (prog = "gui" /\ started = n /\ completed < n)
            ~> (/\ completed = n
                /\ ReadyState
                /\ hist.failed # "none" => (output_text # <<>> /\ Last(output_text) = "ERR"))

\* C7 witness: the second generation of a run was stopped by the user, then
\* failed in the worker, and the window is ready again
C7_Witness ==
    /\ prog = "gui" /\ completed = 2 /\ ReadyState
    /\ hist.stopped /\ hist.failed = "JSONDecodeError"
    /\ Last(output_text) = "ERR"

\* C8 as stated: when a CLI call fails with a caught failure, nothing is on
\* standard output.
C8_NoOutputOnFailure ==
    (prog = "cli" /\ hist.failed \in CaughtFailures) => stdout = <<>>

\* C8 as amended: when a CLI call fails with a caught failure, the error
\* message is the last thing on standard error, generate returns None, and
\* standard output holds exactly the chunks forwarded before the failure:
\* nothing when not streaming, no newline and no result text in any mode.
C8_FailureOutput ==
    (prog = "cli" /\ hist.failed \in CaughtFailures) =>
        /\ cpc \in {"returned", "exit"}
        /\ Last(stderr) \in {ErrUnreachable, ErrInvalidJSON}
        /\ retval = PyNone
        /\ stdout = hist.expected
        /\ ~stream => stdout = <<>>
        /\ \A i \in DOMAIN stdout : stdout[i] \in {"a", "b"}

\* C8 witness: a streaming call lost its connection after two chunks
C8_Witness ==
    /\ prog = "cli" /\ stream /\ hist.failed = "RequestException"
    /\ cpc = "exit" /\ stdout = <<"a", "b">>
    /\ Last(stderr) = ErrUnreachable

\* C9: a streaming response that ends with no line having done = true shows
\* no statistics and no error and ends normally: the CLI prints neither
\* statistics nor an error, even when verbose, and returns None after the
\* newline; the GUI worker queues no update_stats and no error callback, and
\* the statistics labels stay as they were when the request began.
C9_NoTerminalRecord ==
    /\ (prog = "cli" /\ stream /\ ~hist.sawDone /\ hist.failed = "none"
            /\ cpc \in {"returned", "exit"}) =>
          /\ \A i \in DOMAIN stderr : stderr[i] = "args"
          /\ vstats = NoRender
          /\ retval = PyNone
          /\ stdout = hist.expected \o <<"NL">>
    /\ (prog = "gui" /\ started > 0 /\ ~hist.buffered /\ ~hist.sawDone) =>
          /\ labels = hist.labels0
          /\ \A i \in DOMAIN queue : queue[i].fn # "update_stats"
          /\ (hist.failed = "none" /\ Alive = {}) =>
                /\ Shown = hist.expected \o <<"NL">>
                /\ \A i \in DOMAIN queue : queue[i].fn # "update_status"
                /\ completed = started => ReadyState \/ status = "Please enter a prompt"

\* C9 witness: a GUI stream of two chunks closed without a terminal record,
\* in a window whose labels show the statistics of an earlier request
C9_Witness ==
    /\ prog = "gui" /\ completed = 2 /\ ~hist.buffered /\ ~hist.sawDone
    /\ hist.failed = "none" /\ hist.nread = 2 /\ hist.expected = <<"a", "b">>
    /\ labels.pspeed.k = "val"

\* a JSON number field, absent counting as its default 0
IsNumber(field) == field.k \in {"abs", "num"}
NumberOf(field) == IF field.k = "num" THEN field.v ELSE 0

\* C10: for a terminal record whose statistics fields are numbers or absent,
\* both renderers complete, and each tokens-per-second value is shown if and
\* only if its count is > 0 and its duration is > 0: otherwise the CLI prints
\* no speed line and the GUI shows "-".  No record at all, whatever its
\* fields, leads to a division by zero.
C10_SpeedIffPositive ==
    LET d == last_data.obj
        numeric == \A f \in {d.total_duration, d.load_duration, d.prompt_eval_duration,
                             d.eval_duration, d.prompt_eval_count, d.eval_count} :
                        IsNumber(f)
        p == NumberOf(d.prompt_eval_count) > 0 /\ NumberOf(d.prompt_eval_duration) > 0
        g == NumberOf(d.eval_count) > 0 /\ NumberOf(d.eval_duration) > 0
    IN  /\ (prog = "stats" /\ cpc \in {"stats_cli", "stats_gui"}) =>
              /\ vstats.exc # "ZeroDivisionError"
              /\ numeric =>
                    /\ vstats.exc = "none"
                    /\ vstats.pspeed.k = (IF p THEN "val" ELSE "unset")
                    /\ vstats.gspeed.k = (IF g THEN "val" ELSE "unset")
        /\ (prog = "stats" /\ cpc = "stats_gui") =>
              /\ labels.exc # "ZeroDivisionError"
              /\ numeric =>
                    /\ labels.exc = "none"
                    /\ labels.pspeed.k = (IF p THEN "val" ELSE "dash")
                    /\ labels.gspeed.k = (IF g THEN "val" ELSE "dash")

\* C10 witness: a record with a positive count and a zero duration for the
\* generation, and a positive prompt count and duration: the generation speed
\* is left out, the prompt speed is shown
C10_Witness ==
    /\ prog = "stats" /\ cpc = "stats_gui"
    /\ last_data.obj.eval_count = Num(2) /\ last_data.obj.eval_duration = Num(0)
    /\ last_data.obj.prompt_eval_count = Num(1)
    /\ last_data.obj.prompt_eval_duration = Num(NsPerSec \div 2)
    /\ vstats.gspeed = Unset /\ labels.gspeed = Dash
    /\ vstats.pspeed = Val(20) /\ labels.pspeed = Val(20)

\* the request has run to its end: the CLI process has exited, the GUI worker
\* has ended
RequestOver ==
    \/ prog = "cli" /\ cpc = "exit"
    \/ prog = "gui" /\ started > 0 /\ Alive = {}

\* the request was answered in one buffered body
Buffered == (prog = "cli" /\ ~stream) \/ (prog = "gui" /\ hist.buffered)

\* the text a finished request has put before the user: standard output, or
\* the widget after the last header once the queued callbacks have run
Emitted == IF prog = "cli" THEN stdout ELSE Shown

\* C11: a streamed response whose lines were processed up to a terminal line
\* with done = true, nothing following it, puts before the user the
\* concatenation of the lines' chunks; a buffered response puts its
\* `response` field there.  For the same server text (hist.expected) the two
\* modes emit the same thing, that text and one newline, and in the CLI the
\* buffered call returns the text the streamed call has written.
C11_StreamEqualsBuffered ==
    /\ (RequestOver /\ hist.failed = "none"
            /\ (~Buffered => (hist.sawDone /\ ~hist.lateRead))) =>
          Emitted = hist.expected \o <<"NL">>
    /\ (prog = "cli" /\ cpc = "returned" /\ hist.failed = "none") =>
          IF stream THEN retval = PyNone /\ stdout = hist.expected \o <<"NL">>
          ELSE retval = Str(hist.expected) /\ stdout = <<>>
    /\ (prog = "gui" /\ RequestOver /\ queue = <<>> /\ hist.failed = "none"
            /\ (~Buffered => (hist.sawDone /\ ~hist.lateRead))) =>
          AfterLastHeader(output_text) = hist.expected \o <<"NL">>

\* C11 witness: a chunk line and a terminal line were streamed to the window,
\* which now shows both chunks and the newline, below an earlier request
\* that shows the same text
C11_Witness ==
    /\ prog = "gui" /\ completed = 2 /\ queue = <<>>
    /\ ~hist.buffered /\ hist.sawDone /\ ~hist.lateRead /\ hist.nread = 2
    /\ hist.expected = <<"b", "a">>
    /\ output_text = (Header \o <<"a", "NL">>) \o (Header \o <<"b", "a", "NL">>)

\* the `response` field of an object, the empty string when it is absent
ResponseField(d) == IF d.response.k = "abs" THEN <<>> ELSE d.response.v

\* C12: with stream = false the result of generate is the `response` field
\* of the object received, the empty string when the field is absent; main
\* prints it and a newline; the statistics of a verbose call are rendered
\* from the same object.  The GUI worker queues the field, a newline and the
\* statistics of the same object, in this order, and the labels afterwards
\* are update_stats of an object with that text.
C12_BufferedResult ==
    /\ (prog = "cli" /\ ~stream /\ last_data.some) =>
          /\ hist.expected = ResponseField(last_data.obj)
          /\ vstats = IF verbose THEN print_verbose_stats(last_data.obj) ELSE NoRender
          /\ cpc \in {"returned", "exit"} => retval = Str(ResponseField(last_data.obj))
          /\ cpc = "returned" => stdout = <<>>
          /\ cpc = "exit" => stdout = ResponseField(last_data.obj) \o <<"NL">>
    /\ (prog = "gui" /\ hist.buffered) =>
          /\ hist.failed = "none"
          /\ Shown = hist.expected \o <<"NL">>
          /\ \A i \in DOMAIN queue :
                queue[i].fn = "update_stats" =>
                    LET before == <<CbAppend(ResponseField(queue[i].data)),
                                    CbAppend(<<"NL">>)>>
                    IN  /\ \E k \in 0..2 :
                              SubSeq(queue, 1, i - 1) = SubSeq(before, k + 1, 2)
                        /\ hist.expected = ResponseField(queue[i].data)
          /\ (\A i \in DOMAIN queue : queue[i].fn # "update_stats") =>
                \E o \in Objects :
                    /\ ResponseField(o) = hist.expected
                    /\ labels = update_stats(hist.labels0, o)

\* C12 witness: a verbose buffered CLI call received an object without a
\* `response` field: it returned the empty string, printed the statistics and
\* an empty line
C12_Witness ==
    /\ prog = "cli" /\ ~stream /\ verbose /\ cpc = "exit"
    /\ last_data.some /\ last_data.obj.response = NoResp
    /\ retval = Str(<<>>) /\ stdout = <<"NL">> /\ vstats.timing.set

\* C13: the payload built for /api/generate has an `options` field if and
\* only if num_gpu is not None, 0 included, and the field then holds exactly
\* num_gpu with the given value; model, prompt and stream are the arguments
\* (in the GUI: model_var, the stripped prompt, stream_var, which decides the
\* handler the worker runs).
C13_PayloadOptions ==
    payload # NoPayload =>
        /\ payload.model = args.model
        /\ payload.prompt = args.prompt
        /\ prog = "cli" => payload.stream = stream
        /\ (prog = "gui" /\ \E w \in Alive : InLoop(w)) => payload.stream
        /\ (prog = "gui" /\ hist.buffered) => ~payload.stream
        /\ (payload.options = Abs) <=> (args.num_gpu = NoGpu)
        /\ args.num_gpu # NoGpu => payload.options = Options(args.num_gpu.v)

\* C13 witness: generate called with num_gpu = 0 has sent its request with
\* options = {num_gpu: 0}
C13_Witness ==
    /\ prog = "cli" /\ cpc = "iter" /\ posts = 1
    /\ args.num_gpu = Num(0) /\ payload.options = Options(0)
    /\ payload.model = "llama3" /\ payload.prompt = <<"h", "i">>

\* the widgets of the window
Widgets == <<generate_btn, stop_btn, status, output_text, labels>>

\* q extends p at its end
IsPrefix(p, q) == Len(p) <= Len(q) /\ SubSeq(q, 1, Len(p)) = p

\* C14: no step of a background worker changes a widget or the flag: all a
\* worker does to the window is to add callbacks at the end of the root.after
\* queue, on every path; and every step that changes a widget is a step of
\* the UI thread (a button handler or a queued callback).
C14_WorkerNeverTouchesWidgets ==
    [][/\ WorkerNext => (/\ UNCHANGED <<Widgets, is_generating>>
                         /\ IsPrefix(queue, queue'))
       /\ (prog = "gui" /\ Widgets' # Widgets) =>
              (Generate \/ stop_generation \/ RunCallback)]_vars

\* C14 witness: a worker has failed and is about to end; the error line and
\* the status are queued, the widgets are as Generate left them
C14_Witness ==
    /\ prog = "gui" /\ \E w \in Alive : wk[w].pc = "finally"
    /\ hist.failed = "RequestException" /\ hist.expected = <<"a">>
    /\ queue = <<CbAppend(<<"a">>)>> \o ExceptCallbacks
    /\ status = "Generating..." /\ output_text = Header

\* C15: an invocation of generate makes at most one call of requests.post:
\* one per CLI run, one per started GUI worker, made before anything else of
\* the request; once a request has failed (no connection, a timeout, an HTTP
\* error, a decode error) it is over and no further call is made for it.
C15_SinglePost ==
    /\ prog = "cli" =>
          /\ posts = (IF cpc \in {"main", "post"} THEN 0 ELSE 1)
          /\ hist.failed # "none" => cpc \in {"returned", "exit", "crashed"}
    /\ prog = "gui" =>
          /\ posts = started - Cardinality({w \in DOMAIN wk : wk[w].pc = "post"})
          /\ hist.failed # "none" =>
                \A w \in DOMAIN wk : wk[w].pc \in {"none", "finally", "done"}
          /\ \A w \in DOMAIN wk : wk[w].pc = "post" => hist.failed = "none"

\* C15 witness: the second request of a window lost its connection after one
\* chunk; two workers were started and two calls were made
C15_Witness ==
    /\ prog = "gui" /\ started = 2 /\ completed = 2 /\ posts = 2
    /\ hist.failed = "RequestException" /\ hist.expected = <<"a">>

\* C16: in the CLI a response body that is not JSON is reported with the
\* decode-error message, in both modes: a malformed line of a stream and a
\* malformed buffered body.
C16_DecodeErrorMessage ==
    (prog = "cli" /\ hist.failed \in {"JSONDecodeError", "RequestsJSONDecodeError"}) =>
        Last(stderr) = ErrInvalidJSON

\* the queued callbacks of one kind
Pending(fn) == {i \in DOMAIN queue : queue[i].fn = fn}

\* C17: while a background worker is alive, or its completion callback is
\* still queued, the Generate button is disabled: the button is disabled
\* exactly from the start of a request to the run of its completion callback.
\* This covers the states after stop_generation has cleared is_generating
\* with the worker still running, where the handler generate, if it ran,
\* would start a second worker.
C17_ButtonDisabledWhileAlive ==
    prog = "gui" =>
        /\ (Alive # {} \/ Pending("_generation_complete") # {}) =>
                generate_btn = "disabled"
        /\ (generate_btn = "disabled") <=> (started > completed)
        /\ is_generating => generate_btn = "disabled"

\* C17 witness: Stop was pressed and the worker has not noticed yet: the
\* flag is cleared, the handler generate would start a worker, the button is
\* disabled
C17_Witness ==
    /\ prog = "gui" /\ \E w \in Alive : wk[w].pc = "parse"
    /\ hist.stopped /\ ~is_generating
    /\ generate(UI, <<"h">>).start
    /\ generate_btn = "disabled"

\* C18: the statistics of a request are rendered at most once, from the last
\* parsed line with done = true, after every chunk of the request.  CLI,
\* streaming: nothing is rendered inside the loop; what is rendered is
\* _print_verbose_stats of that line, once, with all chunks and the newline
\* on standard output.  GUI: at most one update_stats is queued, only when
\* the worker has left its loop, it carries that line (or the buffered
\* body), and nothing but the completion callback follows it in the queue:
\* it runs after all appends of the request and before its completion.
C18_StatsOnceAfterChunks ==
    /\ (prog = "cli" /\ stream) =>
          /\ last_data = hist.lastDone
          /\ cpc \in {"main", "post", "iter"} =>
                (vstats = NoRender /\ \A i \in DOMAIN stderr : stderr[i] # "stats")
          /\ Cardinality({i \in DOMAIN stderr : stderr[i] = "stats"}) <= 1
          /\ vstats # NoRender =>
                /\ hist.sawDone
                /\ vstats = print_verbose_stats(hist.lastDone.obj)
                /\ stdout = hist.expected \o <<"NL">>
    /\ prog = "gui" =>
          /\ Cardinality(Pending("update_stats")) <= 1
          /\ \A i \in Pending("update_stats") :
                /\ \A w \in Alive : wk[w].pc = "finally"
                /\ \A j \in DOMAIN queue :
                      j > i => queue[j].fn = "_generation_complete"
                /\ \A j \in DOMAIN queue :
                      j < i => queue[j].fn = "_append_output"
                /\ ~hist.buffered =>
                      (hist.sawDone /\ queue[i].data = hist.lastDone.obj)
                /\ Shown = hist.expected \o <<"NL">>
          /\ \A w \in Alive :
                wk[w].pc \in {"iter", "check", "parse"} =>
                    (wk[w].last_data = hist.lastDone /\ labels = hist.labels0)

\* C18 witness: two lines with done = true were streamed to the window; the
\* statistics of the second are queued behind the appends, the completion
\* callback follows
C18_Witness ==
    /\ prog = "gui" /\ ~hist.buffered /\ hist.lateRead
    /\ hist.expected = <<"b", "a">>
    /\ queue = <<CbAppend(<<"b">>), CbAppend(<<"a">>), CbAppend(<<"NL">>),
                 CbStats(WithStats(Str(<<"a">>), "true", GoodStats)), CbComplete>>

\* C19: every worker that has ended has queued exactly one
\* _generation_complete, as the last callback it queued: a completion
\* callback is the last entry of the queue and nothing is added behind it;
\* the completions run and pending are as many as the workers ended, never
\* more than the generations started; and a completion callback runs only
\* when no worker is alive and it belongs to the latest generation.
C19_OneCompletionPerWorker ==
    /\ [](prog = "gui" =>
            /\ completed <= started
            /\ started - completed <= 1
            /\ completed + Cardinality(Pending("_generation_complete"))
                  = Cardinality({w \in DOMAIN wk : wk[w].pc = "done"})
            /\ \A i \in Pending("_generation_complete") : i = Len(queue)
            /\ Alive # {} => (Pending("_generation_complete") = {}
                               /\ completed = started - 1))
    /\ [][(completed' # completed =>
                (Alive = {} /\ completed' = started /\ completed' = completed + 1))
           /\ (Len(queue') > Len(queue) => Pending("_generation_complete") = {})]_vars

\* C19 witness: the second worker of a window failed and has ended; the
\* error line, the status and, last, its completion callback are queued
C19_Witness ==
    /\ prog = "gui" /\ started = 2 /\ completed = 1 /\ Alive = {}
    /\ queue = ExceptCallbacks \o <<CbComplete>>
    /\ is_generating /\ generate_btn = "disabled"

\* a prompt box holding nothing but blanks
BlankPrompts == {t \in Prompts : \A i \in DOMAIN t : t[i] = " "}

\* C20: with an empty or blank prompt the handler generate changes the
\* status message and nothing else, in every state of the window, a
\* generation in flight or not: the flag, both buttons and the output stay,
\* no worker is started; and the step leaves the queue, the workers and the
\* requests sent as they are.
C20_BlankPromptOnlyStatus ==
    /\ [](prog = "gui" =>
            \A text \in BlankPrompts :
                generate(UI, text) =
                    [ui |-> [UI EXCEPT !.status = "Please enter a prompt"],
                     start |-> FALSE])
    /\ [][(Generate /\ status' = "Please enter a prompt") =>
              UNCHANGED <<is_generating, generate_btn, stop_btn, output_text,
                          labels, queue, wk, started, completed, args, payload,
                          posts, hist>>]_vars

\* C20 witness: after a finished generation Generate was pressed with a
\* blank prompt: the message is shown, the window is otherwise as it was
C20_Witness ==
    /\ prog = "gui" /\ status = "Please enter a prompt"
    /\ started = 1 /\ completed = 1 /\ posts = 1 /\ Alive = {}
    /\ ~is_generating /\ generate_btn = "normal" /\ stop_btn = "disabled"
    /\ output_text = Header \o <<"a", "NL">>

====
